---- MODULE Spec2Model ----
(***************************************************************************)
(* State-machine model of app.py: the Flask application that serves        *)
(* /api/hello, /api/transcript, /openapi.json and /privacy-policy behind a *)
(* flask-limiter Limiter keyed by the remote address.                      *)
(*                                                                         *)
(* Strings the code only compares or copies are TLA+ strings.  The         *)
(* `output` query parameter, which the code lower-cases, is a sequence of  *)
(* ASCII codes so that str.lower() is computed, not assumed.               *)
(***************************************************************************)
EXTENDS Integers, Sequences, FiniteSets, TLC

VARIABLES
    storage,    \* limiter storage ("memory://"): hits per (client, endpoint) in the current window
    slot        \* per worker: the request it is handling, or Idle

vars == <<storage, slot>>

-----------------------------------------------------------------------------
(* Bounds of the model *)

\* hits a key may receive beyond its limit within one window
MaxOver == 1
\* hits that may sit on keys other than the busiest one
MaxSide == 1

-----------------------------------------------------------------------------
(* Program constants *)

\* default_limits=["10 per minute"]
DefaultLimit == 10
\* @limiter.limit("10 per minute")
TranscriptLimit == 10

\* view functions registered with @app.route (Flask endpoint names)
Endpoints == {"hello_world", "get_transcript", "get_openapi_schema", "privacy_policy"}

\* remote addresses (the limiter's key function is get_remote_address)
Clients == {"10.0.0.1", "10.0.0.2"}

\* request workers.  A view shares nothing with other requests but the
\* limiter storage, which a request touches once, in check_request_limit, so
\* requests are taken one at a time.
Workers == {"w1"}

Keys == Clients \X Endpoints

-----------------------------------------------------------------------------
(* Strings as sequences of ASCII codes, and str.lower() *)

s_json == <<106, 115, 111, 110>>
s_srt  == <<115, 114, 116>>
s_text == <<116, 101, 120, 116>>

lower(s) == [i \in DOMAIN s |-> IF s[i] \in 65..90 THEN s[i] + 32 ELSE s[i]]

\* values of the `output` query parameter that requests carry:
\* "JSON", "Srt", "text", "xml"
OutputValues == { <<74, 83, 79, 78>>, <<83, 114, 116>>, s_text, <<120, 109, 108>> }

-----------------------------------------------------------------------------
(* The external collaborators, as deterministic stubs plus failures *)

UrlOk      == "https://youtu.be/dQw4w9WgXcQ"     \* resolvable, transcript available
UrlNoTrans == "https://youtu.be/noCaptions0"     \* resolvable, transcript disabled / not found
UrlBad     == "not-a-video-link"                 \* not a recognisable video link

UrlValues == {"", UrlOk, UrlNoTrans, UrlBad}

\* messages of the exceptions pytube's YouTube(url) can raise
ResolverErrors == {"regex_search: could not find match", "unexpected resolver failure"}

\* messages of the exceptions YouTubeTranscriptApi.get_transcript can raise
\* besides TranscriptsDisabled / NoTranscriptFound
SourceErrors == {"HTTPSConnectionPool: Max retries exceeded", "Too Many Requests"}

\* YouTube(youtube_url).video_id
video_id_of(url) ==
    CASE url = UrlOk      -> "dQw4w9WgXcQ"
      [] url = UrlNoTrans -> "noCaptions0"
      [] OTHER            -> "None"

\* what YouTube(url) can do: return, or raise one of ResolverErrors
ResolverOutcomes(url) ==
    IF url \in {UrlOk, UrlNoTrans}
    THEN { [kind |-> "video_id", e |-> ""] }
    ELSE { [kind |-> "Exception", e |-> m] : m \in ResolverErrors }

\* what YouTubeTranscriptApi.get_transcript(video_id) can do
SourceOutcomes(vid) ==
    (IF vid = "dQw4w9WgXcQ"
     THEN { [kind |-> "transcript", e |-> ""] }
     ELSE { [kind |-> k, e |-> ""] : k \in {"TranscriptsDisabled", "NoTranscriptFound"} })
    \cup { [kind |-> "Exception", e |-> m] : m \in SourceErrors }

-----------------------------------------------------------------------------
(* Requests and responses *)

None == "<None>"

\* request.args with no parameter present
NoArgs == [k \in {} |-> ""]

\* request.args: a function from the names of the parameters present to their values
ArgsValues ==
    {NoArgs}
    \cup { [url |-> u] : u \in UrlValues }
    \cup { [output |-> o] : o \in OutputValues }
    \cup { [url |-> u, output |-> o] : u \in UrlValues, o \in OutputValues }

\* request.args.get(key, default)
args_get(a, key, default) == IF key \in DOMAIN a THEN a[key] ELSE default

NoResponse == [status |-> 0, content_type |-> "", error |-> "", description |-> <<>>]

\* what a collaborator did for the request: nothing yet
NoOutcome == [kind |-> "", e |-> ""]

\* a worker's request: the view's locals (args, output_type, video_id), the
\* position in the handler (pc), whether the limiter let it through, the
\* stages run so far with what the resolver and the transcript source did,
\* and the response
Idle ==
    [pc |-> "idle", client |-> "", endpoint |-> "", args |-> NoArgs, admitted |-> FALSE,
     output_type |-> <<>>, video_id |-> None, trace |-> <<>>,
     resolved |-> NoOutcome, fetched |-> NoOutcome, response |-> NoResponse]

\* werkzeug abort(code, description=...): an error page carrying the description
abort(code, description) ==
    [status |-> code, content_type |-> "text/html", error |-> "", description |-> description]

\* a view's (body, 200, headers) return value
ok_response(content_type) ==
    [status |-> 200, content_type |-> content_type, error |-> "", description |-> <<>>]

-----------------------------------------------------------------------------
(* The rate limiter *)

\* the limit in force on a route: the decorator's limit replaces the defaults
\* on get_transcript, every other route gets default_limits
limit_of(endpoint) ==
    IF endpoint = "get_transcript" THEN TranscriptLimit ELSE DefaultLimit

\* str(e.description) of the RateLimitExceeded that flask-limiter raises
limit_description(endpoint) == "10 per 1 minute"

\* variant: the test made on the counter as it stood before this request's hit
within_limit_before_hit(n, limit) == n - 1 <= limit

\* the fixed-window test on the counter after this request's hit
within_limit(n, limit) == n <= limit

\* @app.errorhandler(429)
ratelimit_handler(description) ==
    [status |-> 429, content_type |-> "application/json",
     error |-> "Rate limit exceeded", description |-> <<description>>]

RECURSIVE SumOver(_, _)
SumOver(f, S) ==
    IF S = {} THEN 0
    ELSE LET k == CHOOSE k \in S : TRUE IN f[k] + SumOver(f, S \ {k})

MaxOf(f) == CHOOSE m \in {f[k] : k \in DOMAIN f} : \A k \in DOMAIN f : f[k] <= m

\* hits sitting on keys other than the busiest one
SideLoad(f) == SumOver(f, DOMAIN f) - MaxOf(f)

-----------------------------------------------------------------------------
(* get_transcript, stage by stage *)

\* lines 52-59: the parameters read, and the two validation aborts
youtube_url_of(a) == args_get(a, "url", None)
output_type_of(a) == lower(args_get(a, "output", s_json))

falsy(v) == v = None \/ v = ""

\* variant: the output parameter is never checked
validate_url_only(a) ==
    IF falsy(youtube_url_of(a))
    THEN abort(400, <<"Missing YouTube URL">>)
    ELSE NoResponse

validate(a) ==
    IF falsy(youtube_url_of(a))
    THEN abort(400, <<"Missing YouTube URL">>)
    ELSE IF output_type_of(a) \notin {s_json, s_srt, s_text}
    THEN abort(400, <<"Invalid output type. Use 'json', 'srt', or 'text'.">>)
    ELSE NoResponse

\* variant: the exception's text is put in the description
invalid_url_response_with_detail(e) == abort(400, <<"Invalid YouTube URL: ", e>>)

\* lines 64-66: any exception of the resolver
invalid_url_response(e) == abort(400, <<"Invalid YouTube URL">>)

\* variant: one content type for every format
content_type_always_json(output_type) == "application/json"

\* lines 71-79: the content type chosen with the formatter
content_type_of(output_type) ==
    IF output_type = s_json THEN "application/json"
    ELSE IF output_type = s_srt THEN "text/plain"
    ELSE "text/plain"

\* lines 83-85
not_available_response(kind) == abort(404, <<"Transcript not available for this video">>)

\* lines 86-88
internal_error_response(e) == abort(500, <<"An error occurred: ", e>>)

\* variant: the general except clause comes first
fetch_response_generic_first(outcome, output_type) ==
    CASE outcome.kind = "transcript" -> ok_response(content_type_of(output_type))
      [] OTHER -> internal_error_response(outcome.e)

\* lines 68-88: the response for what the transcript source did
fetch_response(outcome, output_type) ==
    CASE outcome.kind = "transcript" -> ok_response(content_type_of(output_type))
      [] outcome.kind \in {"TranscriptsDisabled", "NoTranscriptFound"} ->
            not_available_response(outcome.kind)
      [] OTHER -> internal_error_response(outcome.e)

-----------------------------------------------------------------------------
(* Initial state and actions *)

Init ==
    /\ storage = [k \in Keys |-> 0]
    /\ slot = [w \in Workers |-> Idle]

\* a request from client c for endpoint e with query parameters a reaches worker w
Arrive(w, c, e, a) ==
    /\ slot[w].pc = "idle"
    /\ e # "get_transcript" => a = NoArgs
    /\ storage[<<c, e>>] < limit_of(e) + MaxOver
    /\ SideLoad([storage EXCEPT ![<<c, e>>] = @ + 1]) <= MaxSide
    /\ slot' = [slot EXCEPT ![w] =
                  [Idle EXCEPT !.pc = "limiter", !.client = c, !.endpoint = e, !.args = a]]
    /\ UNCHANGED storage

\* variant: the limiter only counts, the view always runs
check_request_limit_audit_only(w) ==
    /\ slot[w].pc = "limiter"
    /\ LET r == slot[w]
           k == <<r.client, r.endpoint>>
       IN /\ storage' = [storage EXCEPT ![k] = @ + 1]
          /\ slot' = [slot EXCEPT ![w] = [r EXCEPT !.pc = r.endpoint, !.admitted = TRUE]]

\* the limiter's check in front of the view: one hit on the client's counter
\* for this route, then the test against the route's limit
check_request_limit(w) ==
    /\ slot[w].pc = "limiter"
    /\ LET r == slot[w]
           k == <<r.client, r.endpoint>>
           n == storage[k] + 1
       IN /\ storage' = [storage EXCEPT ![k] = n]
          /\ slot' = [slot EXCEPT ![w] =
                IF within_limit(n, limit_of(r.endpoint))
                THEN [r EXCEPT !.pc = r.endpoint, !.admitted = TRUE]
                ELSE [r EXCEPT !.pc = "done",
                               !.response = ratelimit_handler(limit_description(r.endpoint))]]

hello_world(w) ==
    /\ slot[w].pc = "hello_world"
    /\ slot' = [slot EXCEPT ![w].pc = "done", ![w].response = ok_response("application/json")]
    /\ UNCHANGED storage

get_openapi_schema(w) ==
    /\ slot[w].pc = "get_openapi_schema"
    /\ slot' = [slot EXCEPT ![w].pc = "done", ![w].response = ok_response("application/json")]
    /\ UNCHANGED storage

privacy_policy(w) ==
    /\ slot[w].pc = "privacy_policy"
    /\ slot' = [slot EXCEPT ![w].pc = "done", ![w].response = ok_response("text/html")]
    /\ UNCHANGED storage

\* get_transcript, lines 52-59
get_transcript_validate(w) ==
    /\ slot[w].pc = "get_transcript"
    /\ LET r == slot[w]
           v == validate(r.args)
           t == Append(r.trace, "validator")
       IN slot' = [slot EXCEPT ![w] =
                IF v # NoResponse
                THEN [r EXCEPT !.pc = "done", !.trace = t, !.response = v]
                ELSE [r EXCEPT !.pc = "resolve", !.trace = t,
                               !.output_type = output_type_of(r.args)]]
    /\ UNCHANGED storage

\* variant: the except clause logs and falls through to the fetch
get_transcript_resolve_no_abort(w) ==
    /\ slot[w].pc = "resolve"
    /\ LET r == slot[w]
           url == youtube_url_of(r.args)
       IN \E o \in ResolverOutcomes(url) :
            slot' = [slot EXCEPT ![w] =
                [r EXCEPT !.pc = "fetch", !.trace = Append(r.trace, "resolver"),
                          !.resolved = o, !.video_id = video_id_of(url)]]
    /\ UNCHANGED storage

\* get_transcript, lines 61-66
get_transcript_resolve(w) ==
    /\ slot[w].pc = "resolve"
    /\ LET r == slot[w]
           url == youtube_url_of(r.args)
           t == Append(r.trace, "resolver")
       IN \E o \in ResolverOutcomes(url) :
            slot' = [slot EXCEPT ![w] =
                IF o.kind = "video_id"
                THEN [r EXCEPT !.pc = "fetch", !.trace = t, !.resolved = o,
                               !.video_id = video_id_of(url)]
                ELSE [r EXCEPT !.pc = "done", !.trace = t, !.resolved = o,
                               !.response = invalid_url_response(o.e)]]
    /\ UNCHANGED storage

\* get_transcript, lines 68-88
get_transcript_fetch(w) ==
    /\ slot[w].pc = "fetch"
    /\ LET r == slot[w]
       IN \E o \in SourceOutcomes(r.video_id) :
            slot' = [slot EXCEPT ![w] =
                [r EXCEPT !.pc = "done", !.fetched = o,
                          !.trace = IF o.kind = "transcript"
                                    THEN r.trace \o <<"source", "formatter">>
                                    ELSE Append(r.trace, "source"),
                          !.response = fetch_response(o, r.output_type)]]
    /\ UNCHANGED storage

\* the response leaves; the worker is free again
Respond(w) ==
    /\ slot[w].pc = "done"
    /\ slot' = [slot EXCEPT ![w] = Idle]
    /\ UNCHANGED storage

\* the window of a key ends: the storage drops its counter
Expire(k) ==
    /\ storage[k] > 0
    /\ storage' = [storage EXCEPT ![k] = 0]
    /\ UNCHANGED slot

Next ==
    \/ \E w \in Workers, c \in Clients, e \in Endpoints, a \in ArgsValues : Arrive(w, c, e, a)
    \/ \E w \in Workers : check_request_limit(w)
    \/ \E w \in Workers : hello_world(w)
    \/ \E w \in Workers : get_openapi_schema(w)
    \/ \E w \in Workers : privacy_policy(w)
    \/ \E w \in Workers : get_transcript_validate(w)
    \/ \E w \in Workers : get_transcript_resolve(w)
    \/ \E w \in Workers : get_transcript_fetch(w)
    \/ \E w \in Workers : Respond(w)
    \/ \E k \in Keys : Expire(k)

Spec == Init /\ [][Next]_vars

-----------------------------------------------------------------------------
(* Vocabulary of the properties *)

Transcript(w) == slot[w].endpoint = "get_transcript"

Finished(w) == slot[w].pc = "done"

KeyOf(w) == <<slot[w].client, slot[w].endpoint>>

Stages == <<"validator", "resolver", "source", "formatter">>

IsPrefix(t, u) == Len(t) <= Len(u) /\ \A i \in 1..Len(t) : t[i] = u[i]

Ran(w, stage) == \E i \in 1..Len(slot[w].trace) : slot[w].trace[i] = stage

Fold(c) == IF c \in 97..122 THEN c - 32 ELSE c

SameIgnoringCase(a, b) ==
    Len(a) = Len(b) /\ \A i \in 1..Len(a) : Fold(a[i]) = Fold(b[i])

UrlMissing(a) == "url" \notin DOMAIN a \/ a["url"] = ""

OutputAbsent(a) == "output" \notin DOMAIN a

OutputInvalid(a) ==
    /\ ~OutputAbsent(a)
    /\ \A f \in {s_json, s_srt, s_text} : ~SameIgnoringCase(a["output"], f)

\* the content type the format calls for
ExpectedContentType(a) ==
    IF OutputAbsent(a) \/ SameIgnoringCase(a["output"], s_json)
    THEN "application/json"
    ELSE "text/plain"

Mentions(description, e) == \E i \in 1..Len(description) : description[i] = e

-----------------------------------------------------------------------------
(* Properties *)

\* C1: when a client's counter for /api/transcript already stands at the
\* quota, the limiter's check of its next request in the window ends the
\* request with 429 and no stage of the view has run; in every state a
\* request answered 429 has run no stage, and only admitted requests run any.
C1_GateBeforeWork ==
    [][\A w \in Workers :
         /\ (/\ slot[w].pc = "limiter"
             /\ Transcript(w)
             /\ slot'[w] # slot[w]
             /\ storage[KeyOf(w)] >= TranscriptLimit)
            => (/\ slot'[w].pc = "done"
                /\ slot'[w].response.status = 429
                /\ slot'[w].trace = <<>>)
         /\ (Transcript(w)' /\ slot'[w].response.status = 429) => slot'[w].trace = <<>>
         /\ (Transcript(w)' /\ slot'[w].trace # <<>>) => slot'[w].admitted]_vars

\* a request to /api/transcript was answered 429 with the counter past the quota
C1_Witness ==
    \E w \in Workers :
        /\ Transcript(w) /\ Finished(w)
        /\ slot[w].response.status = 429
        /\ slot[w].trace = <<>>
        /\ storage[KeyOf(w)] = TranscriptLimit + 1

\* C2: no request to /api/hello or /privacy-policy is answered 429.
C2_InfoNeverLimited ==
    \A w \in Workers :
        slot[w].endpoint \in {"hello_world", "privacy_policy"}
            => slot[w].response.status # 429

\* C4: when the transcript source fails with anything other than disabled /
\* not found, the response is 500 and its description does not carry the
\* failure's message.
C4_GenericInternalError ==
    \A w \in Workers :
        (Transcript(w) /\ slot[w].fetched.kind = "Exception")
            => (/\ slot[w].response.status = 500
                /\ ~Mentions(slot[w].response.description, slot[w].fetched.e))

\* C5: every failure of the resolver is answered with status 400 and the
\* fixed description 'Invalid YouTube URL', which carries nothing of the error.
C5_ResolverFailureUniform ==
    \A w \in Workers :
        (Transcript(w) /\ slot[w].resolved.kind = "Exception")
            => (/\ Finished(w)
                /\ slot[w].response.status = 400
                /\ slot[w].response.description = <<"Invalid YouTube URL">>
                /\ ~Mentions(slot[w].response.description, slot[w].resolved.e))

\* the resolver failed with the second of its causes and the request was answered
C5_Witness ==
    \E w \in Workers :
        /\ Transcript(w) /\ Finished(w)
        /\ slot[w].resolved = [kind |-> "Exception", e |-> "unexpected resolver failure"]
        /\ slot[w].response.status = 400

\* C6: a request to /api/transcript that the validator has examined and whose
\* url is missing or empty, or whose output is not json, srt or text whatever
\* the case, ends there with status 400; with a url and no output parameter it
\* passes validation with the format json.
C6_ValidationFailures ==
    \A w \in Workers :
        (Transcript(w) /\ Ran(w, "validator")) =>
            /\ (UrlMissing(slot[w].args) \/ OutputInvalid(slot[w].args))
                => (/\ Finished(w)
                    /\ slot[w].response.status = 400
                    /\ slot[w].trace = <<"validator">>)
            /\ (~UrlMissing(slot[w].args) /\ OutputAbsent(slot[w].args))
                => (/\ slot[w].output_type = s_json
                    /\ (slot[w].pc = "resolve" \/ Ran(w, "resolver")))

\* a request with a url and the output "xml" was answered 400
C6_Witness ==
    \E w \in Workers :
        /\ Transcript(w) /\ Finished(w)
        /\ ~UrlMissing(slot[w].args)
        /\ OutputInvalid(slot[w].args)
        /\ slot[w].response.status = 400

\* C7: a request to /api/transcript for which the resolver succeeded and the
\* transcript source returned the transcript is answered 200 with the content
\* type its format calls for: application/json for json, text/plain for srt
\* and text.
C7_SuccessContentType ==
    \A w \in Workers :
        (/\ Transcript(w)
         /\ slot[w].resolved.kind = "video_id"
         /\ slot[w].fetched.kind = "transcript")
            => (/\ Finished(w)
                /\ slot[w].response.status = 200
                /\ slot[w].response.content_type = ExpectedContentType(slot[w].args))

\* a request for the format "Srt" was answered 200
C7_Witness ==
    \E w \in Workers :
        /\ Transcript(w) /\ Finished(w)
        /\ slot[w].fetched.kind = "transcript"
        /\ ~OutputAbsent(slot[w].args)
        /\ SameIgnoringCase(slot[w].args["output"], s_srt)
        /\ slot[w].response.status = 200

\* C8: when the transcript source signals transcript disabled or no
\* transcript found, the response is 404 with the description 'Transcript
\* not available for this video', whatever the output format.
C8_NotAvailable ==
    \A w \in Workers :
        (Transcript(w) /\ slot[w].fetched.kind \in {"TranscriptsDisabled", "NoTranscriptFound"})
            => (/\ Finished(w)
                /\ slot[w].response.status = 404
                /\ slot[w].response.description = <<"Transcript not available for this video">>)

\* the source signalled no transcript found for a request asking for text
C8_Witness ==
    \E w \in Workers :
        /\ Transcript(w) /\ Finished(w)
        /\ slot[w].fetched.kind = "NoTranscriptFound"
        /\ slot[w].output_type = s_text
        /\ slot[w].response.status = 404

\* C9: an admitted request to /api/transcript adds one to its client's
\* counter, no later step of the request changes the storage whatever the
\* outcome, and once the counter stands at the quota the client's next
\* request in the window is answered 429.
C9_QuotaConsumedWhateverOutcome ==
    [][\A w \in Workers :
         Transcript(w) =>
            /\ (slot[w].pc = "limiter" /\ slot'[w].admitted)
                => storage'[KeyOf(w)] = storage[KeyOf(w)] + 1
            /\ (slot[w].pc \in {"get_transcript", "resolve", "fetch", "done"}
                    /\ slot'[w] # slot[w])
                => storage' = storage
            /\ (slot[w].pc = "limiter" /\ slot'[w] # slot[w]
                    /\ storage[KeyOf(w)] >= TranscriptLimit)
                => slot'[w].response.status = 429]_vars

\* the request that used up the quota was admitted and failed
C9_Witness ==
    \E w \in Workers :
        /\ Transcript(w) /\ Finished(w)
        /\ slot[w].admitted
        /\ slot[w].response.status \in {400, 404, 500}
        /\ storage[KeyOf(w)] = TranscriptLimit

\* C10: the stages a request to /api/transcript has run are a prefix of
\* validator, resolver, source, formatter; the resolver ran only after
\* validation passed, the source only after the resolver returned, the
\* formatter only after the source returned; a failed stage is the last one
\* run; a response exists only at the end and its status is one of 200, 400,
\* 404, 429, 500.
C10_LinearPipeline ==
    \A w \in Workers :
        Transcript(w) =>
            /\ IsPrefix(slot[w].trace, Stages)
            /\ Ran(w, "resolver")
                => ~(UrlMissing(slot[w].args) \/ OutputInvalid(slot[w].args))
            /\ Ran(w, "source") => slot[w].resolved.kind = "video_id"
            /\ Ran(w, "formatter") => slot[w].fetched.kind = "transcript"
            /\ slot[w].resolved.kind = "Exception"
                => slot[w].trace = <<"validator", "resolver">>
            /\ slot[w].fetched.kind \notin {"", "transcript"}
                => slot[w].trace = <<"validator", "resolver", "source">>
            /\ slot[w].response # NoResponse <=> Finished(w)
            /\ Finished(w) => slot[w].response.status \in {200, 400, 404, 429, 500}
            /\ slot[w].response.status = 200 => slot[w].trace = Stages
            /\ slot[w].response.status = 429 => slot[w].trace = <<>>

\* a request ran all four stages and was answered 200
C10_Witness ==
    \E w \in Workers :
        /\ Transcript(w) /\ Finished(w)
        /\ slot[w].trace = Stages
        /\ slot[w].response.status = 200

====
